---- MODULE Spec2Model ----
(***************************************************************************)
(* pybacktest.Backtest (src/pybacktest/backtest.py): the lazily computed,  *)
(* memoised pipeline  dataobj -> signals/prices -> positions/trade_price   *)
(* -> trades -> equity.                                                    *)
(*                                                                         *)
(* A pandas Series over the shared time index is a function over Index.    *)
(* A float that may be missing is <<>> (NaN) or <<v>>; an object that may  *)
(* be None is <<>> (None) or <<obj>>.                                      *)
(***************************************************************************)
EXTENDS Integers, Sequences, FiniteSets, TLC

VARIABLES namespace, dataobj, status, cache, calls, ret

vars == <<namespace, dataobj, status, cache, calls, ret>>

\* ---------------------------------------------------------------- bounds
\* number of bars of the time index
MaxLen == 2
\* number of true signal cells, supplied price cells and missing opens of
\* one input namespace
MaxEvents == 4

Index == 1..MaxLen

NaN == <<>>
None == <<>>
Some(v) == <<v>>

\* ------------------------------------------------------- class attributes
_ohlc_possible_fields == <<"ohlc", "bars", "ohlcv">>
_sig_mask_int == <<"Buy", "Sell", "Short", "Cover">>
_pr_mask_int == <<"BuyPrice", "SellPrice", "ShortPrice", "CoverPrice">>
signal_fields == <<"buy", "sell", "short", "cover">>
price_fields == <<"buyprice", "sellprice", "shortprice", "coverprice">>

Pairs == 1..4

Props == {"ohlc", "signals", "prices", "default_price", "trade_price",
          "positions", "trades", "equity"}

\* ------------------------------------------------------------ the inputs
\* names under which a caller may hold the bars frame ("quotes" is none of
\* the names the backtest looks for)
BarsNames == {"ohlc", "Bars", "quotes"}

\* str.lower() on the keys a namespace can hold
Lower(k) ==
    CASE k = "Bars" -> "bars"
      [] k = "OHLCV" -> "ohlcv"
      [] OTHER -> k

\* explicit price of pair i at bar t and open of bar t, when present
PriceOf(i, t) == 10 * i + t
OpenOf(t) == 100 + t

\* the namespace before the caller has filled it in: four signal series
\* that are False throughout, no price series, and the bars frame with every
\* open under barsName
EmptyNamespace(barsName) ==
    [k \in {signal_fields[i] : i \in Pairs} \cup {barsName} |->
        IF k = barsName THEN [O |-> [t \in Index |-> Some(OpenOf(t))]]
        ELSE [t \in Index |-> FALSE]]

BarsNameOf(ns) == CHOOSE k \in BarsNames : k \in DOMAIN ns

\* the number of cells the caller has filled in
Edits(ns) ==
    Cardinality({<<i, t>> \in Pairs \X Index : ns[signal_fields[i]][t]})
    + Cardinality({<<i, t>> \in Pairs \X Index :
            /\ price_fields[i] \in DOMAIN ns
            /\ ns[price_fields[i]][t] # NaN})
    + Cardinality({t \in Index : ns[BarsNameOf(ns)].O[t] = NaN})

\* --------------------------------------------------------- pure functions
\* dict.get: None for a key the dict does not hold
Get(d, k) == IF k \in DOMAIN d THEN Some(d[k]) ELSE None

\* Backtest.__init__, line 64: the keys lowercased
LowerKeys(ns) ==
    [k \in {Lower(n) : n \in DOMAIN ns} |->
        ns[CHOOSE n \in DOMAIN ns : Lower(n) = k]]

\* Backtest.ohlc: the first of the possible names that holds an object
OhlcLookup(d) ==
    LET hits == {i \in 1..Len(_ohlc_possible_fields) :
                    Get(d, _ohlc_possible_fields[i]) # None}
    IN  IF hits = {} THEN None
        ELSE Get(d, _ohlc_possible_fields[CHOOSE i \in hits :
                                            \A j \in hits : i <= j])

\* parts.extract_frame: None when no external name matches, else a frame of
\* the internal names; a name that is not matched gives a column of NaN
\* (Backtest.__init__ docstring: a Series not present defaults to next Open)
ExtractFrame(d, ext_mask, int_mask) ==
    IF \A i \in Pairs : Get(d, ext_mask[i]) = None THEN None
    ELSE Some([c \in {int_mask[i] : i \in Pairs} |->
            LET i == CHOOSE j \in Pairs : int_mask[j] = c
                obj == Get(d, ext_mask[i])
            IN  IF obj = None THEN [t \in Index |-> NaN] ELSE obj[1]])

\* Series.shift(-1): the value of the next bar, NaN at the last bar
Shift(s) == [t \in Index |-> IF t + 1 \in Index THEN s[t + 1] ELSE NaN]

\* Backtest.trade_price, line 98: no price frame at all
NoPricesFallbackUnshifted(O) == O
NoPricesFallback(O) == Shift(O)

\* Backtest.trade_price, lines 99-103: dp[s] = p[s] for each pair in order
RECURSIVE AssignPairsFirstWins(_, _, _)
AssignPairsFirstWins(sig, pr, n) ==
    IF n = 0 THEN [t \in Index |-> NaN]
    ELSE LET dp == AssignPairsFirstWins(sig, pr, n - 1)
             s == sig[_sig_mask_int[n]]
             p == pr[_pr_mask_int[n]]
         IN  [t \in Index |-> IF s[t] /\ dp[t] = NaN THEN p[t] ELSE dp[t]]

RECURSIVE AssignPairsAnyBar(_, _, _)
AssignPairsAnyBar(sig, pr, n) ==
    IF n = 0 THEN [t \in Index |-> NaN]
    ELSE LET dp == AssignPairsAnyBar(sig, pr, n - 1)
             p == pr[_pr_mask_int[n]]
         IN  [t \in Index |-> IF p[t] # NaN THEN p[t] ELSE dp[t]]

RECURSIVE AssignPairs(_, _, _)
AssignPairs(sig, pr, n) ==
    IF n = 0 THEN [t \in Index |-> NaN]
    ELSE LET dp == AssignPairs(sig, pr, n - 1)
             s == sig[_sig_mask_int[n]]
             p == pr[_pr_mask_int[n]]
         IN  [t \in Index |-> IF s[t] THEN p[t] ELSE dp[t]]

\* Series.combine_first: the own value where present, else the other's
CombineFirst(a, b) == [t \in Index |-> IF a[t] # NaN THEN a[t] ELSE b[t]]

\* parts.signals_to_positions: the Flat/Long/Short scan, signals read in
\* the order Cover, Buy, Sell, Short; "Undef" is Flat before any transition
Applicable(st, row) ==
    \/ row.Cover /\ st = "Short"
    \/ row.Buy /\ st # "Long"
    \/ row.Sell /\ st = "Long"
    \/ row.Short /\ st # "Short"

Step(st, row) ==
    LET s0 == IF st = "Undef" THEN "Flat" ELSE st
        s1 == IF row.Cover /\ s0 = "Short" THEN "Flat" ELSE s0
        s2 == IF row.Buy /\ s1 # "Long" THEN "Long" ELSE s1
        s3 == IF row.Sell /\ s2 = "Long" THEN "Flat" ELSE s2
        s4 == IF row.Short /\ s3 # "Short" THEN "Short" ELSE s3
    IN  IF st = "Undef" /\ ~Applicable(s0, row) THEN "Undef" ELSE s4

RowAt(sig, mask, t) ==
    [Buy |-> sig[mask[1]][t], Sell |-> sig[mask[2]][t],
     Short |-> sig[mask[3]][t], Cover |-> sig[mask[4]][t]]

RECURSIVE StateAfter(_, _, _)
StateAfter(sig, mask, t) ==
    IF t = 0 THEN "Undef"
    ELSE Step(StateAfter(sig, mask, t - 1), RowAt(sig, mask, t))

PosOf(st) ==
    CASE st = "Long" -> Some(1)
      [] st = "Short" -> Some(-1)
      [] st = "Flat" -> Some(0)
      [] OTHER -> NaN

SignalsToPositions(sig, mask) ==
    [t \in Index |-> PosOf(StateAfter(sig, mask, t))]

\* Backtest.trades, lines 113-117: join, dropna, diff over the kept rows
SurvivingPosOnly(pos, price) ==
    LET Keep(t) == pos[t] # NaN
    IN  SelectSeq([t \in Index |-> t], Keep)

Surviving(pos, price) ==
    LET Keep(t) == pos[t] # NaN /\ price[t] # NaN
    IN  SelectSeq([t \in Index |-> t], Keep)

DiffOverIndex(pos, kept, i) ==
    IF kept[i] = 1 \/ pos[kept[i] - 1] = NaN THEN NaN
    ELSE Some(pos[kept[i]][1] - pos[kept[i] - 1][1])

Diff(pos, kept, i) ==
    IF i = 1 THEN NaN ELSE Some(pos[kept[i]][1] - pos[kept[i - 1]][1])

TradesFrameVolIsPos(pos, price, kept) ==
    [i \in 1..Len(kept) |->
        [t |-> kept[i], pos |-> pos[kept[i]], price |-> price[kept[i]],
         vol |-> IF i = 1 THEN NaN ELSE pos[kept[i]]]]

TradesFrame(pos, price, kept) ==
    [i \in 1..Len(kept) |->
        [t |-> kept[i], pos |-> pos[kept[i]], price |-> price[kept[i]],
         vol |-> Diff(pos, kept, i)]]

\* parts.trades_to_equity: the profit of holding the previous row's
\* position from the previous row's price to this row's price
TradesToEquity(trd) ==
    [i \in 1..Len(trd) |->
        [t |-> trd[i].t,
         eq |-> IF i = 1 THEN Some(0)
                ELSE IF trd[i].price = NaN \/ trd[i - 1].price = NaN THEN NaN
                ELSE Some(trd[i - 1].pos[1]
                            * (trd[i].price[1] - trd[i - 1].price[1]))]]

\* ------------------------------------------------ cached_property(ttl=0)
\* The memo of one access: m.cache[p] is <<>> until p's getter has returned
\* and <<value>> from then on; m.calls[p] counts the runs of p's getter that
\* returned; m.exc says that an exception is propagating.
Val(m, p) == m.cache[p][1]

\* __get__ of cached_property: the cached value when there is one, else the
\* getter's value v, computed in the memo deps that its own accesses left
Memo(m, p, deps, v) ==
    IF m.cache[p] # <<>> THEN m
    ELSE IF deps.exc THEN deps
    ELSE [cache |-> [deps.cache EXCEPT ![p] = <<v>>],
          calls |-> [deps.calls EXCEPT ![p] = @ + 1],
          exc |-> FALSE]

Raise(m) == [m EXCEPT !.exc = TRUE]

\* ------------------------------------------------------------ the getters
GetOhlc(m) ==
    LET s == OhlcLookup(dataobj)
    IN  IF m.cache["ohlc"] = <<>> /\ s = None THEN Raise(m)
        ELSE Memo(m, "ohlc", m, s[1])

GetSignals(m) ==
    Memo(m, "signals", m,
         ExtractFrame(dataobj, signal_fields, _sig_mask_int)[1])

GetPrices(m) ==
    Memo(m, "prices", m, ExtractFrame(dataobj, price_fields, _pr_mask_int))

GetDefaultPrice(m) ==
    LET m1 == GetOhlc(m)
    IN  Memo(m, "default_price", m1, Shift(Val(m1, "ohlc").O))

GetTradePrice(m) ==
    LET m1 == GetPrices(m) IN
    IF m.cache["trade_price"] # <<>> THEN m
    ELSE IF Val(m1, "prices") = None
    THEN LET m2 == GetOhlc(m1)
         IN  Memo(m, "trade_price", m2, NoPricesFallback(Val(m2, "ohlc").O))
    ELSE LET m2 == GetSignals(m1)
             dp == AssignPairs(Val(m2, "signals"), Val(m2, "prices")[1], 4)
             m3 == GetDefaultPrice(m2)
         IN  Memo(m, "trade_price", m3,
                  CombineFirst(dp, Val(m3, "default_price")))

GetPositionsSwapped(m) ==
    LET m1 == GetSignals(m)
    IN  Memo(m, "positions", m1,
             SignalsToPositions(Val(m1, "signals"),
                                <<"Short", "Cover", "Buy", "Sell">>))

GetPositions(m) ==
    LET m1 == GetSignals(m)
    IN  Memo(m, "positions", m1,
             SignalsToPositions(Val(m1, "signals"), _sig_mask_int))

\* a variant of trades that drops the rows in the cached positions too
GetTradesInPlace(m) ==
    LET m1 == GetPositions(m)
        m2 == IF m1.exc THEN m1 ELSE GetTradePrice(m1)
        pos == Val(m2, "positions")
        price == Val(m2, "trade_price")
        m3 == IF m2.exc THEN m2
              ELSE [m2 EXCEPT !.cache["positions"] =
                        <<[t \in Index |-> IF price[t] = NaN THEN NaN
                                           ELSE pos[t]]>>]
    IN  Memo(m, "trades", m3, TradesFrame(pos, price, Surviving(pos, price)))

GetTrades(m) ==
    LET m1 == GetPositions(m)
        m2 == IF m1.exc THEN m1 ELSE GetTradePrice(m1)
        pos == Val(m2, "positions")
        price == Val(m2, "trade_price")
    IN  Memo(m, "trades", m2, TradesFrame(pos, price, Surviving(pos, price)))

GetEquity(m) ==
    LET m1 == GetTrades(m)
    IN  Memo(m, "equity", m1, TradesToEquity(Val(m1, "trades")))

\* ------------------------------------------------------------------ state
Unset == [p \in Props |-> <<>>]
NoCalls == [p \in Props |-> 0]
Self == [cache |-> cache, calls |-> calls, exc |-> FALSE]

InitWith(names) ==
    /\ namespace \in {EmptyNamespace(b) : b \in names}
    /\ dataobj = [k \in {} |-> <<>>]
    /\ status = "new"
    /\ cache = Unset
    /\ calls = NoCalls
    /\ ret = <<>>

\* ---------------------------------------------------------------- actions
\* The caller fills in the namespace before it builds the Backtest, at most
\* budget cells in all: a signal that fires at a bar, ...
SetSignal(budget) ==
    \E i \in Pairs, t \in Index :
        /\ status = "new"
        /\ Edits(namespace) < budget
        /\ ~namespace[signal_fields[i]][t]
        /\ namespace' = [namespace EXCEPT ![signal_fields[i]][t] = TRUE]
        /\ UNCHANGED <<dataobj, status, cache, calls, ret>>

\* ... an explicit price at a bar (the series is created with the first
\* price it holds), ...
SetPrice(budget) ==
    \E i \in Pairs, t \in Index :
        LET k == price_fields[i]
            old == IF k \in DOMAIN namespace THEN namespace[k]
                   ELSE [u \in Index |-> NaN]
        IN  /\ status = "new"
            /\ Edits(namespace) < budget
            /\ old[t] = NaN
            /\ namespace' = [n \in DOMAIN namespace \cup {k} |->
                    IF n = k THEN [old EXCEPT ![t] = Some(PriceOf(i, t))]
                    ELSE namespace[n]]
            /\ UNCHANGED <<dataobj, status, cache, calls, ret>>

\* ... or a bar after the first whose open is missing
DropOpen(budget) ==
    \E t \in Index \ {1} :
        LET b == BarsNameOf(namespace)
        IN  /\ status = "new"
            /\ Edits(namespace) < budget
            /\ namespace[b].O[t] # NaN
            /\ namespace' = [namespace EXCEPT ![b].O[t] = NaN]
            /\ UNCHANGED <<dataobj, status, cache, calls, ret>>

\* Backtest.__init__: lowercases the keys, then reads self.ohlc for the
\* plot slicers; when that raises, no instance is returned
ConstructLazy ==
    /\ status = "new"
    /\ dataobj' = LowerKeys(namespace)
    /\ status' = "ok"
    /\ UNCHANGED <<namespace, cache, calls, ret>>

Construct ==
    /\ status = "new"
    /\ dataobj' = LowerKeys(namespace)
    /\ LET s == OhlcLookup(LowerKeys(namespace))
       IN  IF s = None
           THEN /\ status' = "failed"
                /\ UNCHANGED <<cache, calls>>
           ELSE /\ status' = "ok"
                /\ cache' = [cache EXCEPT !["ohlc"] = <<s[1]>>]
                /\ calls' = [calls EXCEPT !["ohlc"] = @ + 1]
    /\ UNCHANGED <<namespace, ret>>

\* one read of a derived property of the instance
Access(p, m) ==
    /\ status = "ok"
    /\ cache' = m.cache
    /\ calls' = m.calls
    /\ ret' = IF m.exc THEN <<"raise", p>> ELSE <<"return", p, m.cache[p]>>
    /\ UNCHANGED <<namespace, dataobj, status>>

AccessOhlc == Access("ohlc", GetOhlc(Self))
AccessSignals == Access("signals", GetSignals(Self))
AccessPrices == Access("prices", GetPrices(Self))
AccessDefaultPrice == Access("default_price", GetDefaultPrice(Self))
AccessTradePrice == Access("trade_price", GetTradePrice(Self))
AccessPositions == Access("positions", GetPositions(Self))
AccessTrades == Access("trades", GetTrades(Self))
AccessEquity == Access("equity", GetEquity(Self))

\* ---------------------------------------------------------- specifications
\* a backtest run: construction, then the equity curve (which computes every
\* stage) and the default price, in either order
Init == InitWith({"ohlc"})

Next ==
    \/ SetSignal(MaxEvents)
    \/ SetPrice(MaxEvents)
    \/ DropOpen(MaxEvents)
    \/ Construct
    \/ AccessDefaultPrice
    \/ AccessEquity

Spec == Init /\ [][Next]_vars

\* any sequence of reads of the derived properties, on smaller inputs, with
\* the bars frame under a capitalised name or under a name that is not looked
\* for
InitCache == InitWith(BarsNames \ {"ohlc"})

NextCache ==
    \/ SetSignal(MaxEvents - 2)
    \/ SetPrice(MaxEvents - 2)
    \/ DropOpen(MaxEvents - 2)
    \/ Construct
    \/ AccessOhlc
    \/ AccessSignals
    \/ AccessPrices
    \/ AccessDefaultPrice
    \/ AccessTradePrice
    \/ AccessPositions
    \/ AccessTrades
    \/ AccessEquity

SpecCache == InitCache /\ [][NextCache]_vars

\* ------------------------------------------------------------ properties
Has(p) == cache[p] # <<>>
V(p) == cache[p][1]

Sig(i, t) == V("signals")[_sig_mask_int[i]][t]
Pr(i, t) == V("prices")[1][_pr_mask_int[i]][t]
PricesSupplied == Has("prices") /\ V("prices") # None
PriceResolved == Has("trade_price") /\ PricesSupplied

\* the pairs that fire at t, and those of them that hold a price at t
Firing(t) == {i \in Pairs : Sig(i, t)}
Priced(t) == {i \in Firing(t) : Pr(i, t) # NaN}
Min(S) == CHOOSE i \in S : \A j \in S : i <= j
Max(S) == CHOOSE i \in S : \A j \in S : j <= i

LedgerBars == {V("trades")[i].t : i \in 1..Len(V("trades"))}
RowOf(t) == CHOOSE i \in 1..Len(V("trades")) : V("trades")[i].t = t

\* C1: with a price frame supplied, at every bar where some pair's signal is
\* true and its price is present the resolved price is one of the explicit
\* prices of that bar (and so not the default), whatever the other pairs hold
C1_ExplicitPriceWins ==
    PriceResolved =>
        \A t \in Index : \A i \in Pairs :
            Sig(i, t) /\ Pr(i, t) # NaN =>
                V("trade_price")[t] \in {Pr(j, t) : j \in Pairs} \ {NaN}

\* C2: with a price frame supplied, at every bar where no pair has both its
\* signal true and its price present the resolved price is the default price
\* of that bar
C2_DefaultWhenNoExplicit ==
    PriceResolved =>
        \A t \in Index :
            Priced(t) = {} => V("trade_price")[t] = V("default_price")[t]

C2_Witness ==
    /\ PriceResolved
    /\ \E t \in Index :
        /\ Priced(t) = {}
        /\ Firing(t) # {}
        /\ \E j \in Pairs : ~Sig(j, t) /\ Pr(j, t) # NaN
        /\ V("default_price")[t] # NaN
        /\ V("trade_price")[t] = V("default_price")[t]

\* C3: with no price frame at all, trade_price is default_price at every bar,
\* the last bar included, where both are undefined
C3_NoPricesIsDefault ==
    Has("trade_price") /\ Has("prices") /\ V("prices") = None
        /\ Has("default_price") =>
            /\ \A t \in Index : V("trade_price")[t] = V("default_price")[t]
            /\ V("trade_price")[MaxLen] = NaN

C3_Witness ==
    /\ Has("trade_price") /\ Has("prices") /\ V("prices") = None
    /\ Has("default_price")
    /\ V("trade_price")[1] # NaN
    /\ V("trade_price")[1] # V("ohlc").O[1]

\* C4 as stated: the ledger has exactly one row for every bar with a defined
\* position and none for any other bar
C4_LedgerRowsArePositions ==
    Has("trades") =>
        /\ LedgerBars = {t \in Index : V("positions")[t] # NaN}
        /\ Cardinality(LedgerBars) = Len(V("trades"))

\* C4 as amended: the ledger has exactly one row for every bar at which both
\* the position and the resolved price are defined and none for any other bar
C4_LedgerRowsArePricedPositions ==
    Has("trades") =>
        /\ LedgerBars = {t \in Index : /\ V("positions")[t] # NaN
                                       /\ V("trade_price")[t] # NaN}
        /\ Cardinality(LedgerBars) = Len(V("trades"))

C4_Witness ==
    /\ Has("trades")
    /\ V("positions")[MaxLen] # NaN
    /\ V("trade_price")[MaxLen] = NaN
    /\ MaxLen \notin LedgerBars
    /\ LedgerBars # {}

\* C5: volume is undefined at the first ledger row and at every later row it
\* is the position of the row minus the position of the row before it in the
\* ledger
C5_VolumeIsDiffOverLedger ==
    Has("trades") =>
        \A i \in 1..Len(V("trades")) :
            V("trades")[i].vol =
                IF i = 1 THEN NaN
                ELSE Some(V("trades")[i].pos[1] - V("trades")[i - 1].pos[1])

\* a ledger whose first row follows a bar that had a position but was dropped
C5_Witness ==
    /\ Has("trades")
    /\ Len(V("trades")) >= 1
    /\ V("trades")[1].t > 1
    /\ V("positions")[V("trades")[1].t - 1] # NaN
    /\ V("positions")[V("trades")[1].t - 1] # V("trades")[1].pos
    /\ V("trades")[1].vol = NaN

StateOf(pos) ==
    CASE pos = Some(1) -> "Long"
      [] pos = Some(-1) -> "Short"
      [] OTHER -> "Flat"

Before(t) == IF t = 1 THEN NaN ELSE V("positions")[t - 1]
Row(t) == RowAt(V("signals"), _sig_mask_int, t)

\* C6: a position that differs from the position of the bar before has a
\* signal true at its bar; with no applicable signal the position is that of
\* the bar before; the position is undefined before the first transition
C6_PositionChangesOnlyOnSignal ==
    Has("positions") =>
        \A t \in Index :
            /\ V("positions")[t] # Before(t) => Firing(t) # {}
            /\ ~Applicable(StateOf(Before(t)), Row(t)) =>
                    V("positions")[t] = Before(t)
            /\ (\A u \in 1..t : ~Applicable("Flat", Row(u))) =>
                    V("positions")[t] = NaN

C6_Witness ==
    /\ Has("positions")
    /\ Firing(1) # {}
    /\ V("positions")[1] = NaN
    /\ V("positions")[MaxLen] # NaN

\* C7 as stated: Long before a bar, Buy true and Sell false at the bar: the
\* position stays +1 and the ledger records volume 0 at the bar
C7_RepeatedBuyIsIdempotent ==
    Has("trades") =>
        \A t \in Index \ {1} :
            Before(t) = Some(1) /\ Row(t).Buy /\ ~Row(t).Sell =>
                /\ V("positions")[t] = Some(1)
                /\ t \in LedgerBars
                /\ V("trades")[RowOf(t)].vol = Some(0)

\* C7 as amended: Long before a bar, Buy true and neither Sell nor Short true
\* at the bar: the position stays +1, and when the bar and the bar before it
\* both have a ledger row the volume recorded at the bar is 0
C7_RepeatedBuyKeepsLong ==
    Has("trades") =>
        \A t \in Index \ {1} :
            Before(t) = Some(1) /\ Row(t).Buy /\ ~Row(t).Sell /\ ~Row(t).Short =>
                /\ V("positions")[t] = Some(1)
                /\ t \in LedgerBars /\ t - 1 \in LedgerBars =>
                        V("trades")[RowOf(t)].vol = Some(0)

C7_Witness ==
    /\ Has("trades")
    /\ \E t \in Index \ {1} :
        /\ Before(t) = Some(1) /\ Row(t).Buy /\ ~Row(t).Sell /\ ~Row(t).Short
        /\ t \in LedgerBars /\ t - 1 \in LedgerBars
        /\ V("trades")[RowOf(t)].vol = Some(0)

\* C8: when the namespace holds the bars frame under none of the names
\* ohlc, bars, ohlcv (after lowercasing), no instance comes to exist and no
\* position series, trade ledger or equity series is ever available
C8_NoBarsNoResults ==
    OhlcLookup(LowerKeys(namespace)) = None =>
        /\ status # "ok"
        /\ ~Has("positions") /\ ~Has("trades") /\ ~Has("equity")

C8_Witness ==
    /\ status = "failed"
    /\ OhlcLookup(LowerKeys(namespace)) = None
    /\ \E t \in Index : namespace["buy"][t]

C10_ComputedOnceAndKept ==
    [][\A p \in Props :
          /\ calls'[p] <= 1
          /\ Has(p) => cache'[p] = cache[p] /\ calls'[p] = calls[p]
          /\ (ret' # <<>> /\ ret'[1] = "return" /\ ret'[2] = p) =>
                /\ ret'[3] = cache'[p]
                /\ Has(p) => ret'[3] = cache[p]]_vars

\* positions read again after the ledger dropped a bar that has a position
C10_Witness ==
    /\ Has("equity")
    /\ \A p \in Props : calls[p] = 1
    /\ ret # <<>> /\ ret[1] = "return" /\ ret[2] = "positions"
    /\ V("positions")[MaxLen] # NaN
    /\ MaxLen \notin LedgerBars

====
